---- MODULE Spec2Model ----
(***************************************************************************)
(* Model of src/index.ts: the shallow type probe getType, the real-type    *)
(* classifier getRealType and the aggregate operations built on them       *)
(* (allItemsHaveTheSameType, everyItemHasAUniqueRealType, countRealTypes). *)
(*                                                                         *)
(* A JavaScript string is modelled as the sequence of its UTF-16 code      *)
(* units, so that `<` on strings, slice and toLowerCase are computed       *)
(* rather than assumed.  A JavaScript value is modelled by the facets the  *)
(* code can observe: its typeof tag, its numeric class, the built-in       *)
(* constructors whose prototype lies on its prototype chain (instanceof)   *)
(* and the class name Object.prototype.toString reports for it.            *)
(***************************************************************************)
EXTENDS Integers, Sequences, FiniteSets, TLC

VARIABLES kind, input, op, result

vars == <<kind, input, op, result>>

\* Largest array length explored.
MaxLen == 3

\* The code units of the string literals of the program and of the class
\* names the runtime reports.
CodeUnits ==
    ("number" :> <<110, 117, 109, 98, 101, 114>>) @@
    ("NaN" :> <<78, 97, 78>>) @@
    ("Infinity" :> <<73, 110, 102, 105, 110, 105, 116, 121>>) @@
    ("string" :> <<115, 116, 114, 105, 110, 103>>) @@
    ("boolean" :> <<98, 111, 111, 108, 101, 97, 110>>) @@
    ("undefined" :> <<117, 110, 100, 101, 102, 105, 110, 101, 100>>) @@
    ("symbol" :> <<115, 121, 109, 98, 111, 108>>) @@
    ("function" :> <<102, 117, 110, 99, 116, 105, 111, 110>>) @@
    ("bigint" :> <<98, 105, 103, 105, 110, 116>>) @@
    ("object" :> <<111, 98, 106, 101, 99, 116>>) @@
    ("array" :> <<97, 114, 114, 97, 121>>) @@
    ("date" :> <<100, 97, 116, 101>>) @@
    ("set" :> <<115, 101, 116>>) @@
    ("map" :> <<109, 97, 112>>) @@
    ("weakmap" :> <<119, 101, 97, 107, 109, 97, 112>>) @@
    ("weakset" :> <<119, 101, 97, 107, 115, 101, 116>>) @@
    ("regexp" :> <<114, 101, 103, 101, 120, 112>>) @@
    ("error" :> <<101, 114, 114, 111, 114>>) @@
    ("null" :> <<110, 117, 108, 108>>) @@
    ("[object " :> <<91, 111, 98, 106, 101, 99, 116, 32>>) @@
    ("]" :> <<93>>) @@
    ("Number" :> <<78, 117, 109, 98, 101, 114>>) @@
    ("String" :> <<83, 116, 114, 105, 110, 103>>) @@
    ("Boolean" :> <<66, 111, 111, 108, 101, 97, 110>>) @@
    ("Undefined" :> <<85, 110, 100, 101, 102, 105, 110, 101, 100>>) @@
    ("Symbol" :> <<83, 121, 109, 98, 111, 108>>) @@
    ("Function" :> <<70, 117, 110, 99, 116, 105, 111, 110>>) @@
    ("BigInt" :> <<66, 105, 103, 73, 110, 116>>) @@
    ("Object" :> <<79, 98, 106, 101, 99, 116>>) @@
    ("Null" :> <<78, 117, 108, 108>>) @@
    ("Array" :> <<65, 114, 114, 97, 121>>) @@
    ("Date" :> <<68, 97, 116, 101>>) @@
    ("Set" :> <<83, 101, 116>>) @@
    ("Map" :> <<77, 97, 112>>) @@
    ("WeakMap" :> <<87, 101, 97, 107, 77, 97, 112>>) @@
    ("WeakSet" :> <<87, 101, 97, 107, 83, 101, 116>>) @@
    ("RegExp" :> <<82, 101, 103, 69, 120, 112>>) @@
    ("Error" :> <<69, 114, 114, 111, 114>>) @@
    ("Promise" :> <<80, 114, 111, 109, 105, 115, 101>>) @@
    ("Int8Array" :> <<73, 110, 116, 56, 65, 114, 114, 97, 121>>) @@
    ("Uint8Array" :> <<85, 105, 110, 116, 56, 65, 114, 114, 97, 121>>) @@
    ("Int16Array" :> <<73, 110, 116, 49, 54, 65, 114, 114, 97, 121>>) @@
    ("Uint16Array" :> <<85, 105, 110, 116, 49, 54, 65, 114, 114, 97, 121>>) @@
    ("Int32Array" :> <<73, 110, 116, 51, 50, 65, 114, 114, 97, 121>>) @@
    ("Uint32Array" :> <<85, 105, 110, 116, 51, 50, 65, 114, 114, 97, 121>>) @@
    ("Uint8ClampedArray" :> <<85, 105, 110, 116, 56, 67, 108, 97, 109, 112, 101, 100, 65, 114, 114, 97, 121>>)

\* The JavaScript string with the given spelling.
JS(s) == CodeUnits[s]

\* ---------------------------------------------------------------- values

Prim(t, cls) == [typeof |-> t, num |-> "none", chain |-> {}, class |-> cls]

Num(n) == [typeof |-> "number", num |-> n, chain |-> {}, class |-> "Number"]

Obj(ctors, cls) == [typeof |-> "object", num |-> "none", chain |-> ctors \cup {"Object"}, class |-> cls]

Func == [typeof |-> "function", num |-> "none", chain |-> {"Function", "Object"}, class |-> "Function"]

Null == [typeof |-> "object", num |-> "none", chain |-> {}, class |-> "Null"]

\* Primitive numbers: a finite one, NaN, +Infinity and -Infinity.
Numbers == {Num("finite"), Num("nan"), Num("posinf"), Num("neginf")}

Primitives ==
    Numbers \cup
    { Prim("string", "String"), Prim("boolean", "Boolean"),
      Prim("undefined", "Undefined"), Prim("symbol", "Symbol"),
      Prim("bigint", "BigInt"), Null }

TypedArrays ==
    { Obj({c}, c) : c \in {"Int8Array", "Uint8Array", "Int16Array", "Uint16Array",
                           "Int32Array", "Uint32Array", "Uint8ClampedArray"} }

\* new Number(..), new String(..), new Boolean(..)
Boxed == { Obj({c}, c) : c \in {"Number", "String", "Boolean"} }

Objects ==
    { Obj({}, "Object"), Func, Obj({"TypeError", "Error"}, "Error") } \cup
    { Obj({c}, c) : c \in {"Array", "Date", "Set", "Map", "WeakMap", "WeakSet",
                           "RegExp", "Error", "Promise"} } \cup
    Boxed \cup TypedArrays

Values == Primitives \cup Objects

\* The values arrays longer than one element are built from.
Items ==
    Numbers \cup
    { Prim("string", "String"), Prim("boolean", "Boolean"), Null,
      Obj({}, "Object"), Obj({"Array"}, "Array"), Obj({"Date"}, "Date"),
      Obj({"Number"}, "Number"), Obj({"String"}, "String") }

SeqsUpTo(S, n) == UNION { [1..k -> S] : k \in 0..n }

Arrays == SeqsUpTo(Items, MaxLen) \cup { <<v>> : v \in Values }

\* ------------------------------------------------- host-language helpers

\* typeof value
typeof(value) == JS(value.typeof)

\* isNaN(value), for a value of typeof number
isNaN(value) == value.num = "nan"

\* Math.abs replaced by the identity: the sign of -Infinity is kept.
mathAbs_identity(value) == value.num

\* Math.abs(value): the numeric class of the absolute value
mathAbs(value) == IF value.num = "neginf" THEN "posinf" ELSE value.num

\* value instanceof ctor
instanceof(value, ctor) == ctor \in value.chain

\* Object.prototype.toString.call(value)
toStringCall(value) == JS("[object ") \o JS(value.class) \o JS("]")

\* slice(8) in place of slice(8, -1): the end index is ignored.
slice_noEnd(s, start, end) == SubSeq(s, start + 1, Len(s))

\* s.slice(start, end), with negative indices counted from the end
slice(s, start, end) ==
    LET len  == Len(s)
        from == IF start < 0 THEN (IF len + start < 0 THEN 0 ELSE len + start)
                ELSE (IF start > len THEN len ELSE start)
        to   == IF end < 0 THEN (IF len + end < 0 THEN 0 ELSE len + end)
                ELSE (IF end > len THEN len ELSE end)
    IN  SubSeq(s, from + 1, to)

\* toLowerCase left out.
toLowerCase_omitted(s) == s

\* s.toLowerCase()
toLowerCase(s) == [i \in 1..Len(s) |-> IF s[i] >= 65 /\ s[i] <= 90 THEN s[i] + 32 ELSE s[i]]

\* a < b on strings: lexicographic comparison of code units
RECURSIVE strLess(_, _)
strLess(a, b) ==
    IF b = <<>> THEN FALSE
    ELSE IF a = <<>> THEN TRUE
    ELSE IF a[1] < b[1] THEN TRUE
    ELSE IF a[1] > b[1] THEN FALSE
    ELSE strLess(Tail(a), Tail(b))

\* ------------------------------------------------------------- functions

getType(value) == typeof(value)

getTypesOfItems(arr) == [i \in 1..Len(arr) |-> getType(arr[i])]

getRealType(value) ==
    LET typeOfValue == typeof(value) IN
    IF typeOfValue = JS("number") THEN
        IF isNaN(value) THEN JS("NaN")
        ELSE IF mathAbs(value) = "posinf" THEN JS("Infinity")
        ELSE JS("number")
    ELSE IF typeOfValue = JS("string") THEN JS("string")
    ELSE IF typeOfValue = JS("boolean") THEN JS("boolean")
    ELSE IF typeOfValue = JS("undefined") THEN JS("undefined")
    ELSE IF typeOfValue = JS("symbol") THEN JS("symbol")
    ELSE IF typeOfValue = JS("function") THEN JS("function")
    ELSE IF instanceof(value, "Array") THEN JS("array")
    ELSE IF instanceof(value, "Number") THEN JS("number")
    ELSE IF instanceof(value, "Date") THEN JS("date")
    ELSE IF instanceof(value, "Set") THEN JS("set")
    ELSE IF instanceof(value, "Map") THEN JS("map")
    ELSE IF instanceof(value, "WeakMap") THEN JS("weakmap")
    ELSE IF instanceof(value, "WeakSet") THEN JS("weakset")
    ELSE IF instanceof(value, "RegExp") THEN JS("regexp")
    ELSE IF instanceof(value, "Error") THEN JS("error")
    ELSE IF instanceof(value, "Date") THEN JS("date")
    ELSE toLowerCase(slice(toStringCall(value), 8, -1))

getRealTypesOfItems(arr) == [i \in 1..Len(arr) |-> getRealType(arr[i])]

\* The homogeneity check computed over the real types.
allItemsHaveTheSameType_byRealType(arr) ==
    Cardinality({ getRealType(arr[i]) : i \in 1..Len(arr) }) = 1

\* The set size compared with the array length, as the uniqueness check does.
allItemsHaveTheSameType_byLength(arr) == Cardinality({ getType(arr[i]) : i \in 1..Len(arr) }) = Len(arr)

allItemsHaveTheSameType(arr) == Cardinality({ getType(arr[i]) : i \in 1..Len(arr) }) = 1

\* The uniqueness check computed over the shallow types.
everyItemHasAUniqueRealType_byType(arr) == Cardinality({ getType(arr[i]) : i \in 1..Len(arr) }) = Len(arr)

everyItemHasAUniqueRealType(arr) == Cardinality({ getRealType(arr[i]) : i \in 1..Len(arr) }) = Len(arr)

\* The comparator with its two results exchanged.
compareFn_reversed(a, b) ==
    IF strLess(a[1], b[1]) THEN 1
    ELSE IF strLess(b[1], a[1]) THEN -1
    ELSE 0

compareFn(a, b) ==
    IF strLess(a[1], b[1]) THEN -1
    ELSE IF strLess(b[1], a[1]) THEN 1
    ELSE 0

\* A Map is the sequence of its [key, value] entries in insertion order.
\* map.get(key): <<>> stands for undefined, <<n>> for the number n.
mapGet(map, key) ==
    IF \E k \in 1..Len(map) : map[k][1] = key
    THEN <<map[CHOOSE k \in 1..Len(map) : map[k][1] = key][2]>>
    ELSE <<>>

\* map.set(key, val): an existing key keeps its position
mapSet(map, key, val) ==
    IF \E k \in 1..Len(map) : map[k][1] = key
    THEN [k \in 1..Len(map) |-> IF map[k][1] = key THEN <<key, val>> ELSE map[k]]
    ELSE Append(map, <<key, val>>)

\* x || 0, for x undefined or a number
orZero(x) == IF x = <<>> THEN 0 ELSE IF x[1] = 0 THEN 0 ELSE x[1]

\* The callback without the accumulation: every occurrence stores 1.
countElement_noAccumulate(map, element) == mapSet(map, getRealType(element), 1)

\* The callback countRealTypes passes to forEach.
countElement(map, element) ==
    LET realTypeOfValue == getRealType(element)
        realTypeExist   == mapGet(map, realTypeOfValue)
    IN  mapSet(map, realTypeOfValue, orZero(realTypeExist) + 1)

\* arr.forEach(..) of countRealTypes, starting from the given Map
RECURSIVE forEachCount(_, _)
forEachCount(map, arr) ==
    IF arr = <<>> THEN map
    ELSE forEachCount(countElement(map, Head(arr)), Tail(arr))

\* Array.prototype.sort(compareFn): a stable insertion sort
RECURSIVE insertSorted(_, _)
insertSorted(sorted, e) ==
    IF sorted = <<>> THEN <<e>>
    ELSE IF compareFn(e, Head(sorted)) < 0 THEN <<e>> \o sorted
    ELSE <<Head(sorted)>> \o insertSorted(Tail(sorted), e)

RECURSIVE sort(_)
sort(s) ==
    IF s = <<>> THEN <<>>
    ELSE insertSorted(sort(SubSeq(s, 1, Len(s) - 1)), s[Len(s)])

\* The entries returned in insertion order, without the sort.
countRealTypes_unsorted(arr) == forEachCount(<<>>, arr)

countRealTypes(arr) == sort(forEachCount(<<>>, arr))

\* ----------------------------------------------------------- transitions

Init ==
    /\ \/ kind = "value" /\ input \in Values
       \/ kind = "array" /\ input \in Arrays
    /\ op = "none"
    /\ result = <<>>

Call(name, r) ==
    /\ op' = name
    /\ result' = r
    /\ UNCHANGED <<kind, input>>

CallGetType == kind = "value" /\ Call("getType", getType(input))

CallGetRealType == kind = "value" /\ Call("getRealType", getRealType(input))

CallGetTypesOfItems == kind = "array" /\ Call("getTypesOfItems", getTypesOfItems(input))

CallAllItemsHaveTheSameType ==
    kind = "array" /\ Call("allItemsHaveTheSameType", allItemsHaveTheSameType(input))

CallGetRealTypesOfItems ==
    kind = "array" /\ Call("getRealTypesOfItems", getRealTypesOfItems(input))

CallEveryItemHasAUniqueRealType ==
    kind = "array" /\ Call("everyItemHasAUniqueRealType", everyItemHasAUniqueRealType(input))

CallCountRealTypes == kind = "array" /\ Call("countRealTypes", countRealTypes(input))

Next ==
    \/ CallGetType
    \/ CallGetRealType
    \/ CallGetTypesOfItems
    \/ CallAllItemsHaveTheSameType
    \/ CallGetRealTypesOfItems
    \/ CallEveryItemHasAUniqueRealType
    \/ CallCountRealTypes

Spec == Init /\ [][Next]_vars

\* ---------------------------------------------------------------- claims

\* The real-type tags that occur among the elements of arr.
RealTypeTags(arr) == { getRealType(arr[i]) : i \in 1..Len(arr) }

\* C1 (as stated, from the answer to the tags): allItemsHaveTheSameType(arr) is
\* true only if the set of real-type tags of the elements of arr has at most
\* one element, so two elements with different real types make it false.
C1_AsStated ==
    (op = "allItemsHaveTheSameType" /\ result = TRUE) =>
        Cardinality(RealTypeTags(input)) <= 1

\* C1 (amended): allItemsHaveTheSameType(arr) is true iff arr is not empty and
\* all its elements have the same typeof tag; real types play no part.
C1_SameTypeof ==
    op = "allItemsHaveTheSameType" =>
        (result <=> /\ Len(input) >= 1
                    /\ \A i, j \in 1..Len(input) : input[i].typeof = input[j].typeof)

\* A finite number and NaN, or an array and a plain object: two real types,
\* one typeof tag, and the answer is true.
C1_Witness ==
    /\ op = "allItemsHaveTheSameType"
    /\ Len(input) = 2
    /\ Cardinality(RealTypeTags(input)) = 2
    /\ result = TRUE

\* C2: allItemsHaveTheSameType returns true for the empty array and for every
\* single-element array.
C2_EmptyAndSingleton ==
    (op = "allItemsHaveTheSameType" /\ Len(input) <= 1) => result = TRUE

\* The primitive tag a boxed primitive wraps.
UnboxedTag(v) ==
    CASE v.class = "Number"  -> JS("number")
      [] v.class = "String"  -> JS("string")
      [] v.class = "Boolean" -> JS("boolean")

IsPrimitiveString(v) == v.typeof = "string"

IsBoxedString(v) == v.typeof = "object" /\ v.class = "String"

\* C3 (as stated): getRealType does not give a boxed primitive the tag of its
\* unboxed counterpart, except for boxed numbers, which it tags 'number'.
C3_AsStated ==
    (op = "getRealType" /\ input \in Boxed) =>
        IF input.class = "Number" THEN result = JS("number")
        ELSE result # UnboxedTag(input)

\* C3 (amended): getRealType gives every boxed primitive, boxed strings
\* included, the tag of its unboxed counterpart; it is the typeof-based
\* allItemsHaveTheSameType that tells a boxed string from a primitive one.
C3_BoxedAsUnboxed ==
    /\ (op = "getRealType" /\ input \in Boxed) => result = UnboxedTag(input)
    /\ ( /\ op = "allItemsHaveTheSameType"
         /\ \E i \in 1..Len(input) : IsBoxedString(input[i])
         /\ \E i \in 1..Len(input) : IsPrimitiveString(input[i]) ) => result = FALSE

C3_Witness ==
    /\ op = "getRealType"
    /\ IsBoxedString(input)
    /\ result = JS("string")

\* The number of elements of arr with the given real-type tag.
CountOf(arr, tag) == Cardinality({ i \in 1..Len(arr) : getRealType(arr[i]) = tag })

RECURSIVE SumOfCounts(_)
SumOfCounts(entries) ==
    IF entries = <<>> THEN 0 ELSE Head(entries)[2] + SumOfCounts(Tail(entries))

\* C4: countRealTypes(arr) has exactly one entry [tag, n] for each real-type tag
\* that occurs in arr and none for any other tag, n is the positive number of
\* elements with that tag, and the counts sum to arr.length.
C4_CountsPerTag ==
    op = "countRealTypes" =>
        /\ \A tag \in RealTypeTags(input) :
               Cardinality({ k \in 1..Len(result) : result[k][1] = tag }) = 1
        /\ \A k \in 1..Len(result) :
               /\ result[k][1] \in RealTypeTags(input)
               /\ result[k][2] = CountOf(input, result[k][1])
               /\ result[k][2] > 0
        /\ SumOfCounts(result) = Len(input)
        /\ (input = <<>> => result = <<>>)

C4_Witness ==
    /\ op = "countRealTypes"
    /\ Len(input) = 3
    /\ Len(result) = 2
    /\ \E k \in 1..2 : result[k][2] = 2

\* a precedes b in lexicographic code-point order
CodePointLess(a, b) ==
    \E i \in 1..Len(b) :
        /\ \A j \in 1..(i - 1) : j <= Len(a) /\ a[j] = b[j]
        /\ (i > Len(a) \/ a[i] < b[i])

StartsUpperCase(tag) == tag[1] >= 65 /\ tag[1] <= 90

StartsLowerCase(tag) == tag[1] >= 97 /\ tag[1] <= 122

\* C5: the entries of countRealTypes(arr) are in strictly ascending
\* lexicographic code-point order of their tags, so upper-case tags come
\* before all lower-case tags and no two adjacent entries share a tag.
C5_StrictlyAscending ==
    op = "countRealTypes" =>
        /\ \A k \in 1..(Len(result) - 1) :
               /\ CodePointLess(result[k][1], result[k + 1][1])
               /\ result[k][1] # result[k + 1][1]
        /\ \A k, l \in 1..Len(result) :
               (StartsUpperCase(result[k][1]) /\ StartsLowerCase(result[l][1])) => k < l

\* An upper-case tag met last in the input comes first in the result.
C5_Witness ==
    /\ op = "countRealTypes"
    /\ Len(input) = 3
    /\ Len(result) = 3
    /\ StartsLowerCase(getRealType(input[1]))
    /\ getRealType(input[3]) = JS("Infinity")
    /\ result[1][1] = JS("Infinity")

\* The rearrangements of arr.
PermutationsOf(arr) ==
    { [i \in 1..Len(arr) |-> arr[p[i]]] : p \in Permutations(1..Len(arr)) }

\* C6: countRealTypes gives every permutation of arr the result it gives arr,
\* entry for entry.
C6_OrderIndependent ==
    op = "countRealTypes" =>
        \A p \in PermutationsOf(input) : countRealTypes(p) = result

\* A permutation that meets the tags in another order, and so fills the Map
\* in another order.
C6_Witness ==
    /\ op = "countRealTypes"
    /\ Len(result) >= 2
    /\ \E p \in PermutationsOf(input) :
           /\ getRealTypesOfItems(p) # getRealTypesOfItems(input)
           /\ forEachCount(<<>>, p) # forEachCount(<<>>, input)

\* C7: everyItemHasAUniqueRealType(arr) is true iff no two elements at
\* different positions have the same real-type tag; it is true for [].
C7_UniqueIffNoSharedTag ==
    op = "everyItemHasAUniqueRealType" =>
        /\ result <=> \A i, j \in 1..Len(input) :
                          i # j => getRealType(input[i]) # getRealType(input[j])
        /\ (input = <<>> => result = TRUE)

\* Elements that share their typeof tag and still have unique real types.
C7_Witness ==
    /\ op = "everyItemHasAUniqueRealType"
    /\ Len(input) = 3
    /\ \A i \in 1..3 : input[i].typeof = "number"
    /\ result = TRUE

\* C8: a primitive number is tagged 'NaN' when it is NaN, 'Infinity' when it is
\* +Infinity or -Infinity and 'number' when it is finite; the three tags are
\* pairwise distinct.
C8_NumberTags ==
    (op = "getRealType" /\ input.typeof = "number") =>
        /\ input.num = "nan" => result = JS("NaN")
        /\ input.num \in {"posinf", "neginf"} => result = JS("Infinity")
        /\ input.num = "finite" => result = JS("number")
        /\ (result = JS("number")) => input.num \notin {"nan", "posinf", "neginf"}
        /\ JS("NaN") # JS("Infinity")
        /\ JS("NaN") # JS("number")
        /\ JS("Infinity") # JS("number")

C8_Witness ==
    /\ op = "getRealType"
    /\ input = Num("neginf")
    /\ result = JS("Infinity")

\* tag is the class name cls with its upper-case letters lowered
IsLowerCased(tag, cls) ==
    /\ Len(tag) = Len(cls)
    /\ \A i \in 1..Len(cls) :
           IF cls[i] >= 65 /\ cls[i] <= 90 THEN tag[i] = cls[i] + 32 ELSE tag[i] = cls[i]

\* The tag the ordered rules give a value of typeof object: the first rule
\* that matches, in the order null, array, boxed number, date, Set, WeakSet,
\* Map, WeakMap, RegExp, Error.  <<>> when none matches.
ObjectRule(v) ==
    IF v.class = "Null" THEN JS("null")
    ELSE IF v.class = "Array" THEN JS("array")
    ELSE IF v.class = "Number" THEN JS("number")
    ELSE IF v.class = "Date" THEN JS("date")
    ELSE IF v.class = "Set" THEN JS("set")
    ELSE IF v.class = "WeakSet" THEN JS("weakset")
    ELSE IF v.class = "Map" THEN JS("map")
    ELSE IF v.class = "WeakMap" THEN JS("weakmap")
    ELSE IF v.class = "RegExp" THEN JS("regexp")
    ELSE IF v.class = "Error" THEN JS("error")
    ELSE <<>>

\* C9: getRealType returns one tag for every value: the typeof tag verbatim for
\* string, boolean, undefined, symbol and function, and for a value of typeof
\* object the tag of the first matching rule, otherwise the lower-cased class
\* name (plain object -> 'object', each typed array its own tag).
C9_DecisionPolicy ==
    op = "getRealType" =>
        /\ Len(result) > 0
        /\ \A i \in 1..Len(result) : result[i] \in 0..65535
        /\ input.typeof \in {"string", "boolean", "undefined", "symbol", "function"}
               => result = JS(input.typeof)
        /\ input.typeof = "object" =>
               IF ObjectRule(input) # <<>> THEN result = ObjectRule(input)
               ELSE IsLowerCased(result, JS(input.class))
        /\ input = Obj({}, "Object") => result = JS("object")
        /\ input \in TypedArrays =>
               \A other \in TypedArrays \ {input} : getRealType(other) # result

C9_Witness ==
    /\ op = "getRealType"
    /\ input.typeof = "object"
    /\ input.class = "Uint8ClampedArray"
    /\ ObjectRule(input) = <<>>
    /\ Len(result) = Len(JS("Uint8ClampedArray"))

\* C10: allItemsHaveTheSameType is true for every non-empty array of primitive
\* numbers, also when finite numbers, NaN and the infinities are mixed.
C10_NumbersAreSameType ==
    ( /\ op = "allItemsHaveTheSameType"
      /\ Len(input) >= 1
      /\ \A i \in 1..Len(input) : input[i] \in Numbers ) => result = TRUE

C10_Witness ==
    /\ op = "allItemsHaveTheSameType"
    /\ { input[i] : i \in 1..Len(input) } = {Num("finite"), Num("nan"), Num("posinf")}
    /\ result = TRUE

====
